---- MODULE Spec2Model ----
(***************************************************************************)
(* Model of the DA-study repository:                                       *)
(*   master_study/001_make_folders.py       (tree generation script)       *)
(*   master_study/master_jobs/1_build_distr_and_collider/                  *)
(*       1_build_distr_and_collider.py      (base job script)              *)
(*                                                                         *)
(* Tunes are held as integers in units of 1e-4 (62.305 is 623050): every   *)
(* tune of the scan is rounded to 4 decimals by the script, and the        *)
(* pruning threshold differs from every grid value by at least 1e-4, far   *)
(* above the float64 rounding error of the comparison.                     *)
(* Names of files and keys are sequences of tokens (strings); a path is a  *)
(* sequence of names.                                                      *)
(***************************************************************************)
EXTENDS Integers, Sequences, FiniteSets, TLC

VARIABLES
    cfg,        \* the user-defined parameters of 001_make_folders.py
    gpc,        \* position of the 001_make_folders.py script
    heap,       \* the dictionaries of 001_make_folders.py, by name
    children,   \* children["base_collider"]["children"], in insertion order
    it,         \* position of itertools.product(track_array, array_qx, array_qy)
    idx_job,    \* counter of enumerate(...)
    disk,       \* scans/<study_name> on the filesystem
    found,      \* what os.path.exists("scans/" + study_name) returned
    runs,       \* number of times 001_make_folders.py has been started
    configuration, \* config.yaml of the base job's node
    log,        \* the node's log file: the tags written, in order
    files,      \* the files of the base job's folder: path -> content
    job         \* per worker process: position and locals of the base job script

gvars == <<cfg, gpc, heap, children, it, idx_job, disk, found, runs>>

jvars == <<configuration, log, files, job>>

vars == <<gvars, jvars>>

----------------------------------------------------------------------------
(* Bounds of the model *)

MaxSplit == 5
MaxN == 6
MaxRerunN == 2
MaxRuns == 2
MaxJobSplit == 3
MaxParticles == 2

----------------------------------------------------------------------------
(* Program constants *)

n_turns == 500
BaseQx == 623100
BaseQy == 603200
Qx0 == 623050
Qy0 == 603050
QStep == 10
TriangleShift == 20000
TriangleOffset == 39
KeyWidth == 4
FileWidth == 2

----------------------------------------------------------------------------
(* String formatting: f"{n:0w}" *)

DigitChars == <<"0", "1", "2", "3", "4", "5", "6", "7", "8", "9">>

Chr(d) == DigitChars[d + 1]

Ord(c) == CHOOSE d \in 0..9 : DigitChars[d + 1] = c

RECURSIVE Digits(_)
Digits(n) == IF n < 10 THEN <<Chr(n)>> ELSE Digits(n \div 10) \o <<Chr(n % 10)>>

Fmt(n, w) ==
    LET d == Digits(n)
    IN  IF Len(d) >= w THEN d ELSE [i \in 1..(w - Len(d)) |-> "0"] \o d

LeafKey(idx) == <<"xtrack_">> \o Fmt(idx, KeyWidth)

ParticleFile(track) == << <<"..">>, <<"particles">>, Fmt(track, FileWidth) \o <<".parquet">> >>

ColliderFile == << <<"..">>, <<"collider">>, <<"collider.json">> >>

----------------------------------------------------------------------------
(* The scanned arrays *)

array_qx(c) == [i \in 1..c.nx |-> Qx0 + QStep * (i - 1)]

array_qy(c) == [j \in 1..c.ny |-> Qy0 + QStep * (j - 1)]

track_array(c) == [t \in 1..c.n_split |-> t - 1]

BelowUpperTriangle(qx, qy) == qy < (qx - TriangleShift + TriangleOffset)

(* the offset of the comment of line 263 (0.039) in place of the code's 0.0039 *)
DroppedCommentOffset(c, qx, qy) ==
    c.only_keep_upper_triangle /\ qy < (qx - TriangleShift + 10 * TriangleOffset)

Dropped(c, qx, qy) == c.only_keep_upper_triangle /\ BelowUpperTriangle(qx, qy)

----------------------------------------------------------------------------
(* itertools.product: row-major, the last iterable fastest *)

ProductEmpty(c) == c.n_split = 0 \/ c.nx = 0 \/ c.ny = 0

ProductFirst(c) == IF ProductEmpty(c) THEN <<>> ELSE <<1, 1, 1>>

(* the first iterable fastest *)
ProductNextColumnMajor(c, p) ==
    IF p[1] < c.n_split THEN <<p[1] + 1, p[2], p[3]>>
    ELSE IF p[2] < c.nx THEN <<1, p[2] + 1, p[3]>>
    ELSE IF p[3] < c.ny THEN <<1, 1, p[3] + 1>>
    ELSE <<>>

ProductNext(c, p) ==
    IF p[3] < c.ny THEN <<p[1], p[2], p[3] + 1>>
    ELSE IF p[2] < c.nx THEN <<p[1], p[2] + 1, 1>>
    ELSE IF p[1] < c.n_split THEN <<p[1] + 1, 1, 1>>
    ELSE <<>>

EnumerateNext(idx) == idx + 1

----------------------------------------------------------------------------
(* Dictionaries *)

Store(d, k, v) == [x \in (DOMAIN d) \cup {k} |-> IF x = k THEN v ELSE d[x]]

Ref(o) == [ref |-> o]

(* one dictionary object shared by all the leaves *)
DictSetShared(ch, key, val) ==
    [n \in 1..(Len(ch) + 1) |->
        [key |-> IF n <= Len(ch) THEN ch[n].key ELSE key, val |-> val]]

DictSet(ch, key, val) ==
    IF \E n \in 1..Len(ch) : ch[n].key = key
    THEN [n \in 1..Len(ch) |-> IF ch[n].key = key THEN [key |-> key, val |-> val] ELSE ch[n]]
    ELSE Append(ch, [key |-> key, val |-> val])

Leaf(track, qx, qy) ==
    [ parameters_scanned |-> [group_2 |-> [qx |-> qx, qy |-> qy]],
      particle_file |-> ParticleFile(track),
      collider_file |-> ColliderFile,
      n_turns |-> n_turns,
      delta_max |-> "27.0e-5",
      log_file |-> "tree_maker.log" ]

EmptyDict == [x \in {} |-> 0]

InitialHeap(c) ==
    [ d_config_particles |->
        [ r_min |-> 2, r_max |-> 10, n_r |-> 2 * 16 * (10 - 2), n_angles |-> 5,
          n_split |-> c.n_split ],
      d_config_mad |->
        [ beam_config |-> [lhcb1 |-> [beam_energy_tot |-> 7000],
                           lhcb2 |-> [beam_energy_tot |-> 7000]],
          optics_file |-> "acc-models-lhc/flatcc/opt_flathv_75_180_1500_thin.madx" ],
      d_config_tune_and_chroma |->
        [ qx |-> [lhcb1 |-> BaseQx, lhcb2 |-> BaseQx],
          qy |-> [lhcb1 |-> BaseQy, lhcb2 |-> BaseQy],
          dqx |-> [lhcb1 |-> 50000, lhcb2 |-> 50000],
          dqy |-> [lhcb1 |-> 50000, lhcb2 |-> 50000],
          delta_cmr |-> 10, delta_cmi |-> 0 ],
      d_config_knobs |->
        [ on_x1 |-> "250", on_sep1 |-> "0", on_x2 |-> "-170", on_sep2 |-> "0.138",
          on_x5 |-> "250", on_sep5 |-> "0", on_x8h |-> "0.0", on_x8v |-> "170",
          on_crab1 |-> "-190", on_crab5 |-> "-190",
          i_oct_b1 |-> "60.0", i_oct_b2 |-> "60.0" ],
      d_config_leveling |->
        [ip2 |-> [separation_in_sigmas |-> 5], ip8 |-> [luminosity |-> "2.0e33"]],
      d_config_beambeam |->
        [ mask_with_filling_pattern |->
            [ pattern_fname |-> "8b4e_1972b_1960_1178_1886_224bpi_12inj_800ns_bs200ns.json",
              i_bunch_b1 |-> "worst_bunch_b1", i_bunch_b2 |-> "worst_bunch_b2" ],
          num_particles_per_bunch |-> "1.4e11",
          nemitt_x |-> "2.5e-6", nemitt_y |-> "2.5e-6" ],
      base_collider |->
        [config_particles |-> EmptyDict, config_collider |-> EmptyDict,
         children |-> Ref("children")] ]

(* Lines 224-244: the first generation is assembled by reference *)
AssembledHeap(h) ==
    LET h1 == [h EXCEPT !.base_collider =
                    Store(@, "config_particles", Ref("d_config_particles"))]
        h2 == [h1 EXCEPT !.base_collider =
                    Store(@, "config_collider", Ref("d_config_mad"))]
        h3 == [h2 EXCEPT ![h2.base_collider.config_collider.ref] =
                    Store(@, "config_knobs_and_tuning", Ref("d_config_tune_and_chroma"))]
        kt == h3[h3.base_collider.config_collider.ref].config_knobs_and_tuning.ref
        h4 == [h3 EXCEPT ![kt] = Store(@, "knob_settings", Ref("d_config_knobs"))]
        cc == h4.base_collider.config_collider.ref
        h5 == [h4 EXCEPT ![cc] = Store(@, "skip_leveling_base_collider", FALSE)]
        h6 == [h5 EXCEPT ![cc] = Store(@, "config_lumi_leveling", Ref("d_config_leveling"))]
        h7 == [h6 EXCEPT ![cc] = Store(@, "config_beambeam", Ref("d_config_beambeam"))]
    IN  h7

(* The tunes the base collider's configuration resolves to *)
BaseTune(h, q, beam) ==
    h[h[h.base_collider.config_collider.ref].config_knobs_and_tuning.ref][q][beam]

----------------------------------------------------------------------------
(* The filesystem under scans/<study_name> *)

NoDisk == [exists |-> FALSE, nodes |-> {}, tree_maker_json |-> {}, study_json |-> {}]

----------------------------------------------------------------------------
(* 001_make_folders.py *)

Configs(ns, n) ==
    [n_split : 0..ns, nx : 0..n, ny : 0..n, only_keep_upper_triangle : BOOLEAN]

StartScript(c) ==
    /\ cfg = c
    /\ gpc = "assemble"
    /\ heap = InitialHeap(c)
    /\ children = <<>>
    /\ it = <<>>
    /\ idx_job = 0
    /\ found = FALSE

(* lines 221-244 and the start of the loop of line 260 *)
Assemble ==
    /\ gpc = "assemble"
    /\ heap' = AssembledHeap(heap)
    /\ it' = ProductFirst(cfg)
    /\ idx_job' = 0
    /\ gpc' = "loop"
    /\ UNCHANGED <<cfg, children, disk, found, runs>>
    /\ UNCHANGED jvars

(* lines 260-264: a combination below the upper diagonal is skipped *)
LoopSkip ==
    /\ gpc = "loop"
    /\ it # <<>>
    /\ LET qx == array_qx(cfg)[it[2]]
           qy == array_qy(cfg)[it[3]]
       IN  /\ Dropped(cfg, qx, qy)
           /\ it' = ProductNext(cfg, it)
           /\ idx_job' = EnumerateNext(idx_job)
    /\ UNCHANGED <<cfg, gpc, heap, children, disk, found, runs>>
    /\ UNCHANGED jvars

(* lines 260-272: a kept combination gets its leaf *)
LoopAddLeaf ==
    /\ gpc = "loop"
    /\ it # <<>>
    /\ LET track == track_array(cfg)[it[1]]
           qx == array_qx(cfg)[it[2]]
           qy == array_qy(cfg)[it[3]]
       IN  /\ ~Dropped(cfg, qx, qy)
           /\ children' = DictSet(children, LeafKey(idx_job), Leaf(track, qx, qy))
           /\ it' = ProductNext(cfg, it)
           /\ idx_job' = EnumerateNext(idx_job)
    /\ UNCHANGED <<cfg, gpc, heap, disk, found, runs>>
    /\ UNCHANGED jvars

(* line 260: the product is exhausted; lines 278-291 *)
LoopExit ==
    /\ gpc = "loop"
    /\ it = <<>>
    /\ gpc' = "exists"
    /\ UNCHANGED <<cfg, heap, children, it, idx_job, disk, found, runs>>
    /\ UNCHANGED jvars

(* lines 294-298: the study folder is created unless it exists *)
MakeStudyDir ==
    /\ gpc = "exists"
    /\ found' = disk.exists
    /\ disk' = [disk EXCEPT !.exists = TRUE]
    /\ gpc' = "initialize"
    /\ UNCHANGED <<cfg, heap, children, it, idx_job, runs>>
    /\ UNCHANGED jvars

(* line 302: root = initialize(config) *)
Initialize ==
    /\ gpc = "initialize"
    /\ gpc' = "make_folders"
    /\ UNCHANGED <<cfg, heap, children, it, idx_job, disk, found, runs>>
    /\ UNCHANGED jvars

(* line 308: root.make_folders(generate_run_sh_htc) *)
MakeFolders ==
    /\ gpc = "make_folders"
    /\ disk' = [disk EXCEPT !.nodes = {children}, !.tree_maker_json = {children}]
    /\ gpc' = "rename"
    /\ UNCHANGED <<cfg, heap, children, it, idx_job, found, runs>>
    /\ UNCHANGED jvars

(* lines 313-314: the log files are renamed after the study *)
RenameLogs ==
    /\ gpc = "rename"
    /\ disk' = [disk EXCEPT !.study_json = disk.tree_maker_json, !.tree_maker_json = {}]
    /\ gpc' = "done"
    /\ UNCHANGED <<cfg, heap, children, it, idx_job, found, runs>>
    /\ UNCHANGED jvars

(* the script is started again, with the parameters the user has set *)
RunAgain ==
    /\ gpc = "done"
    /\ runs < MaxRuns
    /\ runs' = runs + 1
    /\ \E c \in Configs(MaxRerunN, MaxRerunN) :
          /\ cfg' = c
          /\ heap' = InitialHeap(c)
    /\ gpc' = "assemble"
    /\ children' = <<>>
    /\ it' = <<>>
    /\ idx_job' = 0
    /\ found' = FALSE
    /\ UNCHANGED disk
    /\ UNCHANGED jvars

----------------------------------------------------------------------------
(* 1_build_distr_and_collider.py *)

Workers == {"w1", "w2"}

JobDir == << <<"base_collider">> >>

LeafDir(idx) == << <<"base_collider">>, LeafKey(idx) >>

(* a relative path seen from the folder cwd *)
RECURSIVE Resolve(_, _)
Resolve(cwd, path) ==
    IF path = <<>> THEN cwd
    ELSE IF Head(path) = <<"..">> THEN Resolve(SubSeq(cwd, 1, Len(cwd) - 1), Tail(path))
    ELSE Resolve(Append(cwd, Head(path)), Tail(path))

(* np.array_split(particle_list, n_split): n_split chunks, the first n % n_split
   one longer than the others; the particles are numbered from 0 *)
(* chunks only for the particles there are: no empty chunk *)
ArraySplitNonEmpty(n, k) ==
    LET m == IF n < k THEN n ELSE k
        each == IF m = 0 THEN 0 ELSE n \div m
        extras == IF m = 0 THEN 0 ELSE n % m
        size(c) == IF c <= extras THEN each + 1 ELSE each
        start(c) == IF c <= extras THEN (c - 1) * (each + 1)
                                  ELSE extras * (each + 1) + (c - 1 - extras) * each
    IN  [c \in 1..m |-> [p \in 1..size(c) |-> start(c) + p - 1]]

ArraySplit(n, k) ==
    LET each == n \div k
        extras == n % k
        size(c) == IF c <= extras THEN each + 1 ELSE each
        start(c) == IF c <= extras THEN (c - 1) * (each + 1)
                                  ELSE extras * (each + 1) + (c - 1 - extras) * each
    IN  [c \in 1..k |-> [p \in 1..size(c) |-> start(c) + p - 1]]

ChunkFile(idx_chunk) == << <<"particles">>, Fmt(idx_chunk, FileWidth) \o <<".parquet">> >>

CorrectionFiles ==
    { << <<"correction">>, <<"corr_co_", nn, ".json">> >> : nn \in {"lhcb1", "lhcb2"} }

TempFiles ==
    { << <<"mad_collider.log">> >>, << <<"mad_b4.log">> >>, << <<"temp">> >>,
      << <<"errors">> >>, << <<"acc-models-lhc">> >> }

WriteFile(fs, path, content) == Store(fs, Resolve(JobDir, path), content)

WriteAll(fs, paths, content) ==
    [p \in (DOMAIN fs) \cup {Resolve(JobDir, q) : q \in paths} |->
        IF p \in {Resolve(JobDir, q) : q \in paths} THEN content ELSE fs[p]]

RemoveAll(fs, paths) ==
    [p \in (DOMAIN fs) \ {Resolve(JobDir, q) : q \in paths} |-> fs[p]]

Exists(fs, path) == Resolve(JobDir, path) \in DOMAIN fs

(* tree_maker.tag_json.tag_it(log_file, tag): the tag is added after the
   content read from the file, and the file is written back *)
TagIt(read, tag) == Append(read, tag)

At(w, pc) == job[w].pc = pc

Goto(w, pc) == job' = [job EXCEPT ![w].pc = pc]

(* lines 24-31: the configuration is loaded; with a log_file, tag_it reads the log *)
TagStartedRead(w) ==
    /\ At(w, "start")
    /\ configuration.log_file
    /\ job' = [job EXCEPT ![w].pc = "tag_started", ![w].read = log]
    /\ UNCHANGED <<configuration, log, files, gvars>>

(* line 30: no log_file in the configuration, nothing is tagged *)
NoLogFile(w) ==
    /\ At(w, "start")
    /\ ~configuration.log_file
    /\ Goto(w, "split")
    /\ UNCHANGED <<configuration, log, files, gvars>>

(* line 31: tag_it writes the log back with "started" *)
TagStartedWrite(w) ==
    /\ At(w, "tag_started")
    /\ log' = TagIt(job[w].read, "started")
    /\ job' = [job EXCEPT ![w].pc = "split", ![w].tagged = Append(@, "started")]
    /\ UNCHANGED <<configuration, files, gvars>>

(* lines 37-58: the distribution is split; array_split raises for 0 sections *)
SplitDistribution(w) ==
    /\ At(w, "split")
    /\ \/ /\ configuration.n_split = 0
          /\ Goto(w, "raised")
       \/ /\ configuration.n_split > 0
          /\ job' = [job EXCEPT ![w].pc = "chunks", ![w].idx_chunk = 0,
                         ![w].particle_list =
                             ArraySplit(configuration.n_particles, configuration.n_split)]
    /\ UNCHANGED <<configuration, log, files, gvars>>

(* lines 59-63: one parquet file per chunk *)
WriteChunk(w) ==
    /\ At(w, "chunks")
    /\ job[w].idx_chunk < Len(job[w].particle_list)
    /\ files' = WriteFile(files, ChunkFile(job[w].idx_chunk),
                          job[w].particle_list[job[w].idx_chunk + 1])
    /\ job' = [job EXCEPT ![w].idx_chunk = @ + 1]
    /\ UNCHANGED <<configuration, log, gvars>>

(* lines 68-72: the two correction files *)
WriteCorrection(w) ==
    /\ At(w, "chunks")
    /\ job[w].idx_chunk = Len(job[w].particle_list)
    /\ files' = WriteAll(files, CorrectionFiles, <<>>)
    /\ Goto(w, "build")
    /\ UNCHANGED <<configuration, log, gvars>>

(* lines 77-105: the mad environment and the collider; leaves temporary files *)
BuildCollider(w) ==
    /\ At(w, "build")
    /\ files' = WriteAll(files, TempFiles, <<>>)
    /\ Goto(w, "cleanup")
    /\ UNCHANGED <<configuration, log, gvars>>

(* lines 109-113: the temporary files are removed; os.remove raises when the
   file is not there *)
RemoveTemporary(w) ==
    /\ At(w, "cleanup")
    /\ \/ /\ \A q \in TempFiles : Exists(files, q)
          /\ files' = RemoveAll(files, TempFiles)
          /\ Goto(w, "tune")
       \/ /\ \E q \in TempFiles : ~Exists(files, q)
          /\ files' = files
          /\ Goto(w, "raised")
    /\ UNCHANGED <<configuration, log, gvars>>

(* lines 118-168: beam-beam installation, trackers, knobs and tuning *)
Tune(w) ==
    /\ At(w, "tune")
    /\ Goto(w, "leveling")
    /\ UNCHANGED <<configuration, log, files, gvars>>

LineNames == <<"lhcb1", "lhcb2">>

SkipMessage == "No leveling is done as skip_leveling is set to True."

NoConfigMessage ==
    "No leveling is done as no configuration has been provided, or skip_leveling is set to True."

(* line 173: "config_lumi_leveling" in config_collider and not
   config_collider["skip_leveling"]; the key skip_leveling is read only when
   config_lumi_leveling is there, and raises KeyError when it is missing *)
LevelingWanted(c) == c.config_lumi_leveling /\ c.skip_leveling = "False"

SkipLevelingMissing(c) == c.config_lumi_leveling /\ c.skip_leveling = "missing"

(* lines 173-179 and 199-203: the leveling, or the message of the else branch *)
Leveling(w) ==
    /\ At(w, "leveling")
    /\ \/ /\ LevelingWanted(configuration)
          /\ job' = [job EXCEPT ![w].pc = "rematch", ![w].leveled = TRUE]
       \/ /\ SkipLevelingMissing(configuration)
          /\ Goto(w, "raised")
       \/ /\ ~LevelingWanted(configuration)
          /\ ~SkipLevelingMissing(configuration)
          /\ job' = [job EXCEPT ![w].pc = "save", ![w].printed = Append(@, NoConfigMessage)]
    /\ UNCHANGED <<configuration, log, files, gvars>>

(* lines 182-196: tunes and chromaticities are matched again, line by line *)
Rematch(w) ==
    /\ At(w, "rematch")
    /\ Len(job[w].rematched) < Len(LineNames)
    /\ job' = [job EXCEPT ![w].rematched = Append(@, LineNames[Len(@) + 1])]
    /\ UNCHANGED <<configuration, log, files, gvars>>

(* lines 197-198: the else of the for loop, which has no break *)
RematchElse(w) ==
    /\ At(w, "rematch")
    /\ Len(job[w].rematched) = Len(LineNames)
    /\ job' = [job EXCEPT ![w].pc = "save", ![w].printed = Append(@, SkipMessage)]
    /\ UNCHANGED <<configuration, log, files, gvars>>

(* lines 214-215: the collider is saved *)
SaveCollider(w) ==
    /\ At(w, "save")
    /\ files' = WriteFile(files, << <<"collider">>, <<"collider.json">> >>, <<>>)
    /\ Goto(w, "tag_completed")
    /\ UNCHANGED <<configuration, log, gvars>>

(* the log file defaulted when the configuration names none *)
TagCompletedReadDefault(w) ==
    /\ At(w, "tag_completed")
    /\ job' = [job EXCEPT ![w].pc = "tag_completed_write", ![w].read = log]
    /\ UNCHANGED <<configuration, log, files, gvars>>

(* lines 217-218: configuration["log_file"] is read whether or not it is there;
   tag_it reads the log *)
TagCompletedRead(w) ==
    /\ At(w, "tag_completed")
    /\ \/ /\ configuration.log_file
          /\ job' = [job EXCEPT ![w].pc = "tag_completed_write", ![w].read = log]
       \/ /\ ~configuration.log_file
          /\ Goto(w, "raised")
    /\ UNCHANGED <<configuration, log, files, gvars>>

(* line 218: tag_it writes the log back with "completed" *)
TagCompletedWrite(w) ==
    /\ At(w, "tag_completed_write")
    /\ log' = TagIt(job[w].read, "completed")
    /\ job' = [job EXCEPT ![w].pc = "done", ![w].tagged = Append(@, "completed")]
    /\ UNCHANGED <<configuration, files, gvars>>

(* an external computation (mad, xmask, xsuite) raises: the script ends there *)
StepRaises(w) ==
    /\ job[w].pc \in {"build", "tune", "leveling", "rematch", "save"}
    /\ Goto(w, "raised")
    /\ UNCHANGED <<configuration, log, files, gvars>>

JobConfigurations ==
    [log_file : BOOLEAN, n_split : 0..MaxJobSplit, n_particles : 0..MaxParticles,
     config_lumi_leveling : BOOLEAN, skip_leveling : {"missing", "True", "False"}]

NewJob == [pc |-> "start", read |-> <<>>, idx_chunk |-> 0, particle_list |-> <<>>,
           tagged |-> <<>>, leveled |-> FALSE, rematched |-> <<>>, printed |-> <<>>]

IdleJob ==
    /\ configuration = [log_file |-> FALSE, n_split |-> 0, n_particles |-> 0,
                        config_lumi_leveling |-> FALSE, skip_leveling |-> "missing"]
    /\ log = <<>>
    /\ files = EmptyDict
    /\ job = [w \in Workers |-> NewJob]

IdleGen ==
    /\ StartScript([n_split |-> 0, nx |-> 0, ny |-> 0, only_keep_upper_triangle |-> TRUE])
    /\ disk = NoDisk
    /\ runs = 1

InitJob ==
    /\ configuration \in JobConfigurations
    /\ log = <<>>
    /\ files = EmptyDict
    /\ job = [w \in Workers |-> NewJob]
    /\ IdleGen

NextJob ==
    \E w \in Workers :
        \/ TagStartedRead(w)
        \/ NoLogFile(w)
        \/ TagStartedWrite(w)
        \/ SplitDistribution(w)
        \/ WriteChunk(w)
        \/ WriteCorrection(w)
        \/ BuildCollider(w)
        \/ RemoveTemporary(w)
        \/ Tune(w)
        \/ Leveling(w)
        \/ Rematch(w)
        \/ RematchElse(w)
        \/ SaveCollider(w)
        \/ TagCompletedRead(w)
        \/ TagCompletedWrite(w)
        \/ StepRaises(w)

SpecJob == InitJob /\ [][NextJob]_vars

----------------------------------------------------------------------------
(* The lifecycle of the base job's node *)

Range(f) == {f[x] : x \in DOMAIN f}

Count(l, tag) == Cardinality({n \in 1..Len(l) : l[n] = tag})

Ended(w) == job[w].pc \in {"done", "raised"}

(* C1: the tags committed to a node's record are in lifecycle order: "started"
   only on a record still pending (the first tag), "completed" or "failed"
   only right after "started"; a tag out of order is not recorded. *)
C1_MonotonicRecord ==
    \A n \in 1..Len(log) :
        /\ log[n] = "started" => n = 1
        /\ log[n] \in {"completed", "failed"} => (n > 1 /\ log[n - 1] = "started")

(* C2: of two workers executing the job for the same node, at most one gets
   its "started" tag accepted, and the record shows "started" once. *)
C2_ExactlyOneStarted ==
    /\ Cardinality({w \in Workers : "started" \in Range(job[w].tagged)}) <= 1
    /\ Count(log, "started") <= 1
    /\ (\E w \in Workers : "started" \in Range(job[w].tagged)) => Count(log, "started") = 1

(* C3: an execution of the job that tagged "started" and has ended, normally or
   by an error, has tagged "completed" or "failed". *)
C3_EndedJobIsTagged ==
    \A w \in Workers :
        (Ended(w) /\ "started" \in Range(job[w].tagged))
            => (\E t \in {"completed", "failed"} : t \in Range(job[w].tagged))

----------------------------------------------------------------------------
(* The tree of 001_make_folders.py *)

Shipped == [n_split |-> 5, nx |-> 6, ny |-> 6, only_keep_upper_triangle |-> TRUE]

RECURSIVE ParseInt(_)
ParseInt(d) == IF d = <<>> THEN 0 ELSE 10 * ParseInt(SubSeq(d, 1, Len(d) - 1)) + Ord(d[Len(d)])

KeyIndex(key) == ParseInt(Tail(key))

LoopOver == gpc \notin {"assemble", "loop"}

Group2(leaf) == leaf.parameters_scanned.group_2

(* the combinations of the product the upper-triangle rule keeps, as
   (particle file of the track, qx, qy) *)
KeptCombinations ==
    { <<ParticleFile(t), Qx0 + QStep * i, Qy0 + QStep * j>> :
        <<t, i, j>> \in { c \in (0..(cfg.n_split - 1)) \X (0..(cfg.nx - 1)) \X (0..(cfg.ny - 1)) :
                            ~((Qy0 + QStep * c[3]) < (Qx0 + QStep * c[2]) - 20000 + 39) } }

LeafCombinations ==
    { <<children[n].val.particle_file, Group2(children[n].val).qx, Group2(children[n].val).qy>> :
        n \in 1..Len(children) }

KeptOfTrack(t) ==
    { <<Group2(children[n].val).qx, Group2(children[n].val).qy>> :
        n \in {m \in 1..Len(children) : children[m].val.particle_file = ParticleFile(t)} }

(* C4: with the upper-triangle rule on, once the loop is over the leaves are
   exactly the combinations of track_array x array_qx x array_qy that are not
   below the upper diagonal, one leaf each, and every split group holds the
   same (qx, qy) set. *)
C4_LeavesAreKeptCombinations ==
    (LoopOver /\ cfg.only_keep_upper_triangle) =>
        /\ LeafCombinations = KeptCombinations
        /\ Len(children) = Cardinality(KeptCombinations)
        /\ \A t \in 0..(cfg.n_split - 1) : KeptOfTrack(t) = KeptOfTrack(0)

C4_ShippedScanBuilt ==
    /\ gpc = "done"
    /\ cfg = Shipped
    /\ Len(children) = 15
    /\ KeptOfTrack(4) = {<<623050, 603090>>, <<623050, 603100>>, <<623060, 603100>>}

(* C6: the index of a leaf's key is the position of its combination in the
   unpruned row-major product: track = k div (Nx*Ny), qx = array_qx[(k div Ny)
   mod Nx], qy = array_qy[k mod Ny]; particle_file names the track. *)
C6_IndexGivesParameters ==
    \A n \in 1..Len(children) :
        LET k == KeyIndex(children[n].key)
            leaf == children[n].val
        IN  /\ children[n].key[1] = "xtrack_"
            /\ leaf.particle_file = ParticleFile(k \div (cfg.nx * cfg.ny))
            /\ Group2(leaf).qx = array_qx(cfg)[((k \div cfg.ny) % cfg.nx) + 1]
            /\ Group2(leaf).qy = array_qy(cfg)[(k % cfg.ny) + 1]

C6_LastShippedLeaf ==
    /\ gpc = "done"
    /\ cfg = Shipped
    /\ \E n \in 1..Len(children) :
          /\ children[n].key = <<"xtrack_", "0", "1", "5", "5">>
          /\ children[n].val.particle_file = << <<"..">>, <<"particles">>, <<"0", "4", ".parquet">> >>
          /\ Group2(children[n].val) = [qx |-> 623060, qy |-> 603100]

(* C8: with an empty scan axis the script fails before the tree is built or
   a folder is written. *)
C8_EmptyAxisRejected ==
    (cfg.nx = 0 \/ cfg.ny = 0 \/ cfg.n_split = 0)
        => gpc \notin {"initialize", "make_folders", "rename", "done"}

(* C9: creating a leaf writes only that leaf's entry: during the loop the
   dictionaries of the base collider do not change and every leaf created
   before keeps its value; the base tunes stay 62.31 and 60.32. *)
C9_LeafWritesOnlyItself ==
    /\ [](gpc # "assemble" =>
            \A beam \in {"lhcb1", "lhcb2"} :
                /\ BaseTune(heap, "qx", beam) = 623100
                /\ BaseTune(heap, "qy", beam) = 603200)
    /\ [][gpc = "loop" =>
            /\ heap' = heap
            /\ Len(children') >= Len(children)
            /\ \A n \in 1..Len(children) : children'[n] = children[n]]_vars

C9_LeavesBesideBase ==
    /\ gpc = "done"
    /\ Len(children) >= 2
    /\ Group2(children[1].val) # Group2(children[2].val)
    /\ BaseTune(heap, "qx", "lhcb1") = 623100
    /\ heap = AssembledHeap(InitialHeap(cfg))

(* C7: started when scans/<study_name> is already there, the script ends in a
   materialization conflict and writes nothing to the existing tree. *)
C7_ExistingTreeUntouched ==
    [][found' => (gpc' = "conflict" /\ disk' = disk)]_vars

(* str.__lt__ on two keys: the first differing character decides, a proper
   prefix is smaller *)
RECURSIVE StrLess(_, _)
StrLess(a, b) ==
    IF a = <<>> THEN b # <<>>
    ELSE IF b = <<>> THEN FALSE
    ELSE IF Head(a) = Head(b) THEN StrLess(Tail(a), Tail(b))
    ELSE Ord(Head(a)) < Ord(Head(b))

(* C5: every key carries a 4-digit index and the keys, compared as strings,
   increase in creation order (so they are unique). Stated on the newest leaf
   against the one before it: every earlier pair was the newest in an earlier
   state. *)
C5_KeysSortInCreationOrder ==
    LET n == Len(children)
    IN  /\ n >= 1 => Len(children[n].key) = 1 + 4
        /\ n >= 2 => StrLess(Tail(children[n - 1].key), Tail(children[n].key))

(* C10: once an execution of the base job has tagged "completed", every
   particle_file a leaf can hold ('../particles/NN.parquet' for the tracks of
   track_array) and the collider_file resolve, from the leaf's folder, to
   files of the base job's folder; the particles folder holds exactly one
   file per index below n_split. *)
C10_ReferencesResolve ==
    \A w \in Workers :
        "completed" \in Range(job[w].tagged) =>
            /\ \A t \in Range(track_array(configuration)) :
                  Resolve(LeafDir(0), ParticleFile(t)) \in DOMAIN files
            /\ Resolve(LeafDir(0), ColliderFile) \in DOMAIN files
            /\ {p \in DOMAIN files : Len(p) = 3 /\ p[2] = <<"particles">>}
                  = {JobDir \o ChunkFile(t) : t \in 0..(configuration.n_split - 1)}

C10_EmptyChunkWritten ==
    /\ \E w \in Workers : job[w].pc = "done"
    /\ configuration.n_split = 3
    /\ configuration.n_particles = 1
    /\ files[<< <<"base_collider">>, <<"particles">>, <<"0", "0", ".parquet">> >>] = <<0>>
    /\ files[<< <<"base_collider">>, <<"particles">>, <<"0", "2", ".parquet">> >>] = <<>>

(* the files an execution of the base job is to leave in its folder *)
OutputArtifacts ==
    {<< <<"base_collider">>, <<"particles">>, Fmt(t, 2) \o <<".parquet">> >> :
        t \in 0..(configuration.n_split - 1)}
    \cup {<< <<"base_collider">>, <<"correction">>, <<"corr_co_", nn, ".json">> >> :
        nn \in {"lhcb1", "lhcb2"}}
    \cup {<< <<"base_collider">>, <<"collider">>, <<"collider.json">> >>}

(* C11: an execution tags "completed" only after it tagged "started" and only
   with all its output artifacts (the n_split particle files, the two
   correction files, collider/collider.json) written; in the log "completed"
   never comes without a "started" before it; without a log_file in the
   configuration no tag is written at all. *)
C11_CompletedAfterStartedAndArtifacts ==
    /\ \A w \in Workers :
          "completed" \in Range(job[w].tagged) =>
              /\ job[w].tagged = <<"started", "completed">>
              /\ OutputArtifacts \subseteq DOMAIN files
    /\ \A n \in 1..Len(log) :
          log[n] = "completed" => \E m \in 1..(n - 1) : log[m] = "started"
    /\ ~configuration.log_file =>
          (log = <<>> /\ \A w \in Workers : job[w].tagged = <<>>)

C11_CompletedRun ==
    /\ configuration.log_file
    /\ configuration.n_split = 2
    /\ \E w \in Workers : job[w].pc = "done" /\ job[w].tagged = <<"started", "completed">>
    /\ log = <<"started", "completed">>
    /\ Cardinality(DOMAIN files) = 5

(* C12: an execution has leveled (and then matched lhcb1 and lhcb2 again)
   exactly when it is past the leveling step with config_lumi_leveling present
   and skip_leveling false, and an execution that printed a "No leveling is
   done" message has not leveled. *)
C12_LevelingAndMessageAgree ==
    \A w \in Workers :
        /\ job[w].leveled => (configuration.config_lumi_leveling
                                /\ configuration.skip_leveling = "False")
        /\ (job[w].pc \in {"save", "tag_completed", "tag_completed_write", "done"}
              /\ configuration.config_lumi_leveling
              /\ configuration.skip_leveling = "False")
             => (job[w].leveled /\ job[w].rematched = <<"lhcb1", "lhcb2">>)
        /\ job[w].printed # <<>> => ~job[w].leveled

InitGen ==
    /\ \E c \in Configs(MaxSplit, MaxN) : StartScript(c)
    /\ disk = NoDisk
    /\ runs = 1
    /\ IdleJob

NextGen ==
    \/ Assemble
    \/ LoopSkip
    \/ LoopAddLeaf
    \/ LoopExit
    \/ MakeStudyDir
    \/ Initialize
    \/ MakeFolders
    \/ RenameLogs

SpecGen == InitGen /\ [][NextGen]_vars

(* a scan of more than 10000 combinations: 5 split groups, 500 values of qx,
   5 values of qy *)
LargeScan == [n_split |-> 5, nx |-> 500, ny |-> 5, only_keep_upper_triangle |-> TRUE]

InitLarge ==
    /\ StartScript(LargeScan)
    /\ disk = NoDisk
    /\ runs = 1
    /\ IdleJob

SpecLarge == InitLarge /\ [][NextGen]_vars

InitRerun ==
    /\ \E c \in Configs(MaxRerunN, MaxRerunN) : StartScript(c)
    /\ disk = NoDisk
    /\ runs = 1
    /\ IdleJob

NextRerun ==
    \/ NextGen
    \/ RunAgain

SpecRerun == InitRerun /\ [][NextRerun]_vars

====
